---- MODULE Spec2Model ----
(***************************************************************************)
(* Model of the chat dispatch core of prayertodo (phase2_new/backend):     *)
(* the Gemini generation client with its retry loop, the MCP tool registry *)
(* with startup validation, the DatabaseClient handlers over the task,     *)
(* masjid and hadith tables, the intent classifier and dispatcher          *)
(* (run_agent) and the chat endpoint.                                      *)
(***************************************************************************)
EXTENDS Integers, Sequences, FiniteSets, TLC

VARIABLES
    max_retries,     \* GeminiConfig.max_retries of the running client
    retry_delay,     \* GeminiConfig.retry_delay, in tenths of a second
    genPc,           \* position of generate_response: idle/running/returned/raised
    attempt,         \* local variable attempt of generate_response
    outcomes,        \* what the remote service answered on each attempt of this call
    delays,          \* the delays slept so far by this call (time.sleep arguments)
    genResult,       \* value returned or exception raised by the finished call
    declared,        \* ALL_TASK_TOOLS + ALL_MASJID_TOOLS + ALL_PRAYER_TOOLS + ALL_HADITH_TOOLS
    registry,        \* _global_registry: built = FALSE for None, else tools = keys of _tools
    appState,        \* lifespan: starting / serving / failed
    tasks,           \* table spiritual_tasks: id -> row
    nextId,          \* next primary key of spiritual_tasks
    prevTasks,       \* spiritual_tasks as it was when the last tool call started
    masjids,         \* table masjids: id -> row
    lastCall,        \* the last call on the registry (execute: what it returned)
    intentMsg,       \* argument user_message of a detect_intent call
    intentOut,       \* the "intent" detect_intent returned for it
    chatPc,          \* the chat router: starting (before startup_event) / ready
    gemini_client,   \* module global gemini_client of routers/chatbot.py
    lastChat,        \* the last chat request and everything its handling did
    health,          \* the health check: its position, its calls and the record returned
    conc             \* chat requests in flight at the same time, each with its position

genVars == <<max_retries, retry_delay, genPc, attempt, outcomes, delays, genResult>>
regVars == <<declared, registry, appState>>
dbVars == <<tasks, nextId, prevTasks, masjids>>
chatVars == <<intentMsg, intentOut, chatPc, gemini_client, lastChat, health, conc>>
vars == <<max_retries, retry_delay, genPc, attempt, outcomes, delays, genResult,
          declared, registry, appState, tasks, nextId, prevTasks, masjids, lastCall,
          intentMsg, intentOut, chatPc, gemini_client, lastChat, health, conc>>

(***************************************************************************)
(* Gemini client: chatbot/gemini/client.py, chatbot/gemini/config.py       *)
(***************************************************************************)

MinRetries == 0
MaxRetriesLimit == 5

\* validate_max_retries accepts 0..5
RetryConfigs == MinRetries..MaxRetriesLimit

\* validate_retry_delay accepts 0.1 .. 10.0 seconds; tenths: 1, 10 (default), 100
RetryDelays == {1, 10, 100}

\* what one generate_content call (and reading response.text) can do
Transient == {"DeadlineExceeded", "ServiceUnavailable"}
Outcomes == {"ok", "Unauthenticated", "ResourceExhausted", "NotFound", "Other"}
                \cup Transient

GeminiErrors == {"GeminiAuthError", "GeminiQuotaError", "GeminiNetworkError", "GeminiError"}

\* while attempt <= self.config.max_retries
LoopCond(a, m) == a <= m

\* will_retry = attempt < self.config.max_retries
WillRetry(a, m) == a < m

IsRetried_auth(o, a, m) == o \in (Transient \cup {"Unauthenticated"}) /\ WillRetry(a, m)

\* the only except clause that reaches `continue`
IsRetried(o, a, m) == o \in Transient /\ WillRetry(a, m)

RaisedFor_generic(o) ==
    CASE o = "Unauthenticated" -> "GeminiAuthError"
      [] o = "ResourceExhausted" -> "GeminiQuotaError"
      [] OTHER -> "GeminiError"

\* the typed exception each except clause raises
RaisedFor(o) ==
    CASE o = "Unauthenticated" -> "GeminiAuthError"
      [] o = "ResourceExhausted" -> "GeminiQuotaError"
      [] o \in Transient -> "GeminiNetworkError"
      [] o = "NotFound" -> "GeminiError"
      [] OTHER -> "GeminiError"

Backoff_exponential(d, a) == d * 2 ^ (a - 1)

\* delay = self.config.retry_delay * attempt
Backoff(d, a) == d * a

InitGen ==
    /\ max_retries \in RetryConfigs
    /\ retry_delay \in RetryDelays
    /\ genPc = "idle"
    /\ attempt = 0
    /\ outcomes = <<>>
    /\ delays = <<>>
    /\ genResult = [kind |-> "none"]

\* entry of generate_response up to the while loop
GenerateResponse ==
    /\ genPc # "running"
    /\ genPc' = "running"
    /\ attempt' = 0
    /\ outcomes' = <<>>
    /\ delays' = <<>>
    /\ genResult' = [kind |-> "none"]
    /\ UNCHANGED <<max_retries, retry_delay>>

\* one iteration of the while loop (or the statement after the loop)
GenAttempt ==
    /\ genPc = "running"
    /\ UNCHANGED <<max_retries, retry_delay>>
    /\ IF ~LoopCond(attempt, max_retries)
       THEN /\ genPc' = "raised"
            /\ genResult' = [kind |-> "GeminiNetworkError"]
            /\ UNCHANGED <<attempt, outcomes, delays>>
       ELSE \E o \in Outcomes :
            LET a == attempt + 1 IN
            /\ attempt' = a
            /\ outcomes' = Append(outcomes, o)
            /\ IF o = "ok"
               THEN /\ genPc' = "returned"
                    /\ genResult' = [kind |-> "text"]
                    /\ delays' = delays
               ELSE IF IsRetried(o, a, max_retries)
               THEN /\ delays' = Append(delays, Backoff(retry_delay, a))
                    /\ UNCHANGED <<genPc, genResult>>
               ELSE /\ genPc' = "raised"
                    /\ genResult' = [kind |-> RaisedFor(o)]
                    /\ delays' = delays


(***************************************************************************)
(* Tool registry: chatbot/mcp_tools/constants.py, registry.py              *)
(***************************************************************************)

TASK_MANAGEMENT_TOOLS ==
    <<"create_task", "list_tasks", "update_task", "delete_task", "complete_task">>
MASJID_TOOLS == <<"list_masjids", "get_masjid_details", "search_masjids">>
PRAYER_TOOLS == <<"get_prayer_times", "get_current_prayer">>
HADITH_TOOLS == <<"get_daily_hadith", "get_random_hadith">>

ALL_TOOL_NAMES == TASK_MANAGEMENT_TOOLS \o MASJID_TOOLS \o PRAYER_TOOLS \o HADITH_TOOLS

Range(s) == {s[i] : i \in 1..Len(s)}

RequiredNames == Range(ALL_TOOL_NAMES)

\* a tool name no constant declares
ExtraTool == "export_tasks"

\* the tool objects the four *_tools.py modules export, in registration order
DeclaredTools == ALL_TOOL_NAMES

RemoveAt(s, k) == SubSeq(s, 1, k - 1) \o SubSeq(s, k + 1, Len(s))

\* builds of the tool modules: the shipped one, one tool dropped, one tool
\* added, one tool declared twice, one tool renamed
Builds ==
    {DeclaredTools}
      \cup {RemoveAt(DeclaredTools, k) : k \in 1..Len(DeclaredTools)}
      \cup {Append(DeclaredTools, ExtraTool)}
      \cup {Append(DeclaredTools, DeclaredTools[k]) : k \in {1, Len(DeclaredTools)}}
      \cup {[DeclaredTools EXCEPT ![k] = ExtraTool] : k \in {4, 9}}

HasDuplicate(s) == \E i, j \in 1..Len(s) : i < j /\ s[i] = s[j]

RegisterAll_noCheck(s) == "ok"

\* ToolRegistry._register_all_tools: the mapping it builds, or the
\* RuntimeError on the first name already present
RegisterAll(s) == IF HasDuplicate(s) THEN "RuntimeError" ELSE "ok"

\* ToolRegistry.get_missing_tools
get_missing_tools(reg) == RequiredNames \ reg

validate_countOnly(reg) == Cardinality(reg) = Len(ALL_TOOL_NAMES)

\* ToolRegistry.validate
validate(reg) ==
    IF get_missing_tools(reg) # {}
    THEN FALSE
    ELSE IF Cardinality(reg) # Len(ALL_TOOL_NAMES)
    THEN FALSE
    ELSE TRUE

NoRegistry == [built |-> FALSE, tools |-> {}]

InitReg ==
    /\ declared \in Builds
    /\ registry = NoRegistry
    /\ appState = "starting"

\* get_tool_registry: the singleton after the call; still None when the
\* constructor raised RuntimeError
get_tool_registry(reg, s) ==
    IF reg.built THEN reg
    ELSE IF RegisterAll(s) = "ok" THEN [built |-> TRUE, tools |-> Range(s)]
    ELSE NoRegistry

\* the methods of a constructed ToolRegistry that callers use
RegistryMethods ==
    {"execute", "validate", "has", "get", "get_missing_tools", "get_all_tool_names"}

ToolsAfter_getRemoves(method, tools) ==
    IF method = "get" THEN {} ELSE tools

\* the keys of self._tools after a call of `method`: none of the methods
\* assigns to self._tools or removes from it (get returns the stored tool,
\* get_all_tool_names and get_missing_tools return new lists)
ToolsAfter(method, tools) == tools

\* whether validate_all_tools returns (TRUE) or raises RuntimeError (FALSE),
\* given the singleton get_tool_registry left behind
validate_all_tools(reg) == reg.built /\ validate(reg.tools)

\* main.lifespan up to the yield: create tables, validate the registry,
\* re-raise RuntimeError
Lifespan ==
    /\ appState = "starting"
    /\ LET reg == get_tool_registry(registry, declared) IN
       /\ registry' = reg
       /\ appState' = IF validate_all_tools(reg) THEN "serving" ELSE "failed"
    /\ UNCHANGED <<declared, tasks, nextId, prevTasks, masjids, lastCall>>
    /\ UNCHANGED <<genVars, chatVars>>

\* get_tool_registry(), called by any code at any time
GetToolRegistry ==
    /\ registry' = get_tool_registry(registry, declared)
    /\ lastCall' = [tool |-> "none", method |-> "get_tool_registry",
                    before |-> registry]
    /\ UNCHANGED <<declared, appState, tasks, nextId, prevTasks, masjids>>
    /\ UNCHANGED <<genVars, chatVars>>

\* has, get, validate, get_missing_tools or get_all_tool_names on the
\* constructed registry
RegistryQuery ==
    /\ registry.built
    /\ \E method \in RegistryMethods \ {"execute"} :
         /\ registry' = [registry EXCEPT !.tools = ToolsAfter(method, registry.tools)]
         /\ lastCall' = [tool |-> "none", method |-> method, before |-> registry]
    /\ UNCHANGED <<declared, appState, tasks, nextId, prevTasks, masjids>>
    /\ UNCHANGED <<genVars, chatVars>>

(***************************************************************************)
(* Tool results: chatbot/mcp_tools/base.py                                 *)
(***************************************************************************)

\* Optional[...] values: None is <<>>, a present value v is <<v>>
None == <<>>
Some(v) == <<v>>

\* ToolResult(success=True, data=...)
ToolResultOk(data) ==
    [success |-> TRUE, data |-> Some(data), error |-> None, error_message |-> None]

ToolResultFail_noCode(code, msg) ==
    [success |-> FALSE, data |-> None, error |-> None, error_message |-> Some(msg)]

\* ToolResult(success=False, error=..., error_message=...)
ToolResultFail(code, msg) ==
    [success |-> FALSE, data |-> None, error |-> Some(code), error_message |-> Some(msg)]

to_dict_noData(r) ==
    LET keep == {k \in DOMAIN r \ {"data"} : k = "success" \/ r[k] # None}
    IN  [k \in keep |-> IF k = "success" THEN r[k] ELSE r[k][1]]

\* ToolResult.to_dict: model_dump(exclude_none=True) leaves out the fields
\* of the ToolResult that are None; the values inside the data dict are kept
to_dict(r) ==
    LET keep == {k \in DOMAIN r : k = "success" \/ r[k] # None}
    IN  [k \in keep |-> IF k = "success" THEN r[k] ELSE r[k][1]]

\* ToolResult(**d): the declared fields of the dictionary, those that are
\* missing at their default None
ToolResult(d) ==
    [success |-> d.success,
     data |-> IF "data" \in DOMAIN d THEN Some(d.data) ELSE None,
     error |-> IF "error" \in DOMAIN d THEN Some(d.error) ELSE None,
     error_message |-> IF "error_message" \in DOMAIN d
                       THEN Some(d.error_message) ELSE None]

\* f"...: {str(e)}" and the other message templates
Msg(template, detail) == [template |-> template, detail |-> detail]

(***************************************************************************)
(* Storage and handlers: models.py, chatbot/mcp_tools/db_client.py         *)
(***************************************************************************)

NumUsers == 2
MaxIds == 2

Users == {6 + u : u \in 1..NumUsers}
FirstUser == CHOOSE u \in Users : \A v \in Users : u <= v
TaskIds == 1..MaxIds

Titles == {"Pray Fajr"}

\* a keyword argument passed as None
PyNone == "None"

\* str.upper on the strings the handlers apply it to
Upper(str) ==
    CASE str = "Other" -> "OTHER"
      [] str = "medium" -> "MEDIUM"
      [] str = "high" -> "HIGH"
      [] str = "low" -> "LOW"
      [] str = "Fajr" -> "FAJR"
      [] OTHER -> str

\* what the storage layer does during one handler call: nothing wrong, an
\* exception before anything is committed, an exception after the commit
\* (session.refresh, or reloading an expired attribute); for the hadith
\* tools also whether the daily_hadith table, which other endpoints write,
\* has no row
Faults == {"none", "pre", "post", "empty"}

\* str(e) of the storage exception
ErrTexts == {"connection refused"}

\* the seeded masjids table (the chat tools never write it)
MasjidTable ==
    (1 :> [name |-> "Masjid Al-Huda", area_name |-> "DHA", city |-> "Karachi",
           fajr_time |-> "05:30"])
    @@ (2 :> [name |-> "Masjid Noor", area_name |-> "Clifton", city |-> "Karachi",
              fajr_time |-> ""])

MasjidIds == 1..3

\* column ILIKE %pattern% on the seeded values
ILike(value, pattern) ==
    <<value, pattern>> \in
        {<<"DHA", "DHA">>, <<"DHA", "dha">>, <<"Clifton", "clifton">>,
         <<"Clifton", "Clif">>, <<"Karachi", "karachi">>,
         <<"Masjid Al-Huda", "huda">>, <<"Masjid Noor", "noor">>,
         <<"Masjid Al-Huda", "masjid">>, <<"Masjid Noor", "masjid">>}

InitDb ==
    /\ tasks = <<>>
    /\ nextId = 1
    /\ prevTasks = <<>>
    /\ masjids = MasjidTable
    /\ lastCall = [tool |-> "none"]

\* a handler's outcome: the ToolResult it returns and the table afterwards
Out(res, t, n) == [res |-> res, tasks |-> t, nextId |-> n]

DbError(what, detail, t, n) ==
    Out(ToolResultFail("DATABASE_ERROR", Msg(what, detail)), t, n)

\* the keyword value, or the default of the parameter when it is not passed
Arg(kw, key, default) == IF key \in DOMAIN kw THEN kw[key] ELSE default

\* `x.upper() if x else dflt`
UpperOr(x, dflt) == IF x = PyNone \/ x = "" THEN dflt ELSE Upper(x)

\* the SpiritualTask row create_task builds
NewTask(user, kw, now) ==
    [user_id |-> user,
     title |-> kw.title,
     description |-> IF "description" \in DOMAIN kw THEN kw.description ELSE "",
     category |-> UpperOr(Arg(kw, "category", "Other"), "OTHER"),
     priority |-> UpperOr(Arg(kw, "priority", "medium"), "MEDIUM"),
     linked_prayer |-> IF Arg(kw, "linked_prayer", PyNone) \in {PyNone, ""} THEN None
                       ELSE Some(Upper(kw.linked_prayer)),
     recurrence |-> "NONE",
     completed |-> FALSE,
     created_at |-> now]

\* DatabaseClient.create_task
create_task(user, kw, fault, detail, t, n) ==
    IF fault = "pre"
    THEN DbError("Failed to create task", detail, t, n)
    ELSE LET row == NewTask(user, kw, n)
             t2 == (n :> row) @@ t
         IN  IF fault = "post"
             THEN DbError("Failed to create task", detail, t2, n + 1)
             ELSE Out(ToolResultOk([task_id |-> n, title |-> row.title,
                                    category |-> row.category,
                                    priority |-> row.priority,
                                    completed |-> row.completed]), t2, n + 1)

RECURSIVE NewestFirst(_, _)
\* order_by(created_at.desc()) over the ids in S
NewestFirst(t, S) ==
    IF S = {} THEN <<>>
    ELSE LET top == CHOOSE i \in S : \A j \in S : t[j].created_at <= t[i].created_at
         IN  <<top>> \o NewestFirst(t, S \ {top})

\* one element of the "tasks" list of list_tasks
TaskItem(t, i) ==
    [id |-> i, title |-> t[i].title, category |-> t[i].category,
     priority |-> t[i].priority, completed |-> t[i].completed,
     linked_prayer |-> t[i].linked_prayer,
     created_at |-> Some(t[i].created_at)]

Selected_allUsers(t, user, kw) ==
    {i \in DOMAIN t :
        /\ ("category" \in DOMAIN kw /\ kw.category # PyNone
                => t[i].category = kw.category)
        /\ ("completed" \in DOMAIN kw => t[i].completed = kw.completed)
        /\ ("priority" \in DOMAIN kw /\ kw.priority # PyNone
                => t[i].priority = kw.priority)}

\* the rows the list_tasks query selects
Selected(t, user, kw) ==
    {i \in DOMAIN t :
        /\ t[i].user_id = user
        /\ ("category" \in DOMAIN kw /\ kw.category # PyNone
                => t[i].category = kw.category)
        /\ ("completed" \in DOMAIN kw => t[i].completed = kw.completed)
        /\ ("priority" \in DOMAIN kw /\ kw.priority # PyNone
                => t[i].priority = kw.priority)}

\* DatabaseClient.list_tasks
list_tasks(user, kw, fault, detail, t, n) ==
    IF fault # "none"
    THEN DbError("Failed to list tasks", detail, t, n)
    ELSE LET ids == NewestFirst(t, Selected(t, user, kw))
         IN  Out(ToolResultOk([tasks |-> [k \in 1..Len(ids) |-> TaskItem(t, ids[k])],
                               total |-> Len(ids)]), t, n)

Found_anyOwner(t, user, id) == id \in DOMAIN t

\* filter(id == task_id, user_id == user_id).first() found a row
Found(t, user, id) == id \in DOMAIN t /\ t[id].user_id = user

NotFound(id, t, n) ==
    Out(ToolResultFail("NOT_FOUND", Msg("Task not found", ToString(id))), t, n)

\* columns whose keyword value may be passed as None
TextColumns == {"title", "description", "category", "priority", "recurrence"}

Patched_setsNone(row, kw) ==
    [f \in DOMAIN row |-> IF f \notin DOMAIN kw THEN row[f] ELSE kw[f]]

\* for key, value in kwargs.items():
\*     if hasattr(task, key) and value is not None: setattr(task, key, value)
Patched(row, kw) ==
    [f \in DOMAIN row |->
        IF f \notin DOMAIN kw THEN row[f]
        ELSE IF f \in TextColumns /\ kw[f] = PyNone THEN row[f]
        ELSE kw[f]]

\* DatabaseClient.update_task
update_task(user, kw, fault, detail, t, n) ==
    IF fault = "pre"
    THEN DbError("Failed to update task", detail, t, n)
    ELSE IF ~Found(t, user, kw.task_id)
    THEN NotFound(kw.task_id, t, n)
    ELSE LET id == kw.task_id
             t2 == [t EXCEPT ![id] = Patched(t[id], kw)]
         IN  IF fault = "post"
             THEN DbError("Failed to update task", detail, t2, n)
             ELSE Out(ToolResultOk([task_id |-> id, title |-> t2[id].title]), t2, n)

\* DatabaseClient.delete_task
delete_task(user, kw, fault, detail, t, n) ==
    IF fault # "none"
    THEN DbError("Failed to delete task", detail, t, n)
    ELSE IF ~Found(t, user, kw.task_id)
    THEN NotFound(kw.task_id, t, n)
    ELSE Out(ToolResultOk([message |-> "Task deleted successfully"]),
             [i \in DOMAIN t \ {kw.task_id} |-> t[i]], n)

\* DatabaseClient.complete_task
complete_task(user, kw, fault, detail, t, n) ==
    IF fault = "pre"
    THEN DbError("Failed to complete task", detail, t, n)
    ELSE IF ~Found(t, user, kw.task_id)
    THEN NotFound(kw.task_id, t, n)
    ELSE LET id == kw.task_id
             t2 == [t EXCEPT ![id].completed = TRUE]
         IN  IF fault = "post"
             THEN DbError("Failed to complete task", detail, t2, n)
             ELSE Out(ToolResultOk([task_id |-> id, completed |-> TRUE]), t2, n)

\* one element of the "masjids" list of list_masjids
MasjidListItem(m, i) ==
    [id |-> i, name |-> m[i].name, area_name |-> m[i].area_name, city |-> Some(m[i].city),
     fajr_time |-> IF m[i].fajr_time # "" THEN Some(m[i].fajr_time) ELSE None]

\* `if area:` filter present and matching
Passes(kw, key, value) ==
    (key \in DOMAIN kw /\ kw[key] # PyNone /\ kw[key] # "") => ILike(value, kw[key])

\* DatabaseClient.list_masjids
list_masjids(user, kw, fault, detail, t, n) ==
    IF fault # "none"
    THEN DbError("Failed to list masjids", detail, t, n)
    ELSE LET ids == {i \in DOMAIN masjids :
                        /\ Passes(kw, "area", masjids[i].area_name)
                        /\ Passes(kw, "city", masjids[i].city)}
         IN  Out(ToolResultOk([masjids |-> {MasjidListItem(masjids, i) : i \in ids},
                               total |-> Cardinality(ids)]), t, n)

\* DatabaseClient.search_masjids
search_masjids(user, kw, fault, detail, t, n) ==
    IF fault # "none"
    THEN DbError("Failed to search masjids", detail, t, n)
    ELSE LET ids == {i \in DOMAIN masjids :
                        /\ Passes(kw, "name", masjids[i].name)
                        /\ Passes(kw, "area", masjids[i].area_name)
                        /\ Passes(kw, "city", masjids[i].city)}
         IN  Out(ToolResultOk([masjids |->
                                  {[id |-> i, name |-> masjids[i].name,
                                    area_name |-> masjids[i].area_name,
                                    city |-> Some(masjids[i].city)] : i \in ids},
                               total |-> Cardinality(ids)]), t, n)

\* DatabaseClient.get_masjid_details
get_masjid_details(user, kw, fault, detail, t, n) ==
    IF fault # "none"
    THEN DbError("Failed to get masjid details", detail, t, n)
    ELSE IF kw.masjid_id \notin DOMAIN masjids
    THEN Out(ToolResultFail("NOT_FOUND",
                            Msg("Masjid not found", ToString(kw.masjid_id))), t, n)
    ELSE LET m == masjids[kw.masjid_id]
         IN  Out(ToolResultOk([id |-> kw.masjid_id, name |-> m.name,
                               area_name |-> m.area_name, city |-> Some(m.city),
                               fajr_time |-> IF m.fajr_time # "" THEN Some(m.fajr_time)
                                             ELSE None]), t, n)

\* DatabaseClient.get_current_prayer: the times are stored as strings, so
\* `prayer_time > now` raises TypeError for the first non-empty one
get_current_prayer(user, kw, fault, detail, t, n) ==
    IF fault # "none"
    THEN DbError("Failed to get current prayer", detail, t, n)
    ELSE IF kw.masjid_id \notin DOMAIN masjids
    THEN Out(ToolResultFail("NOT_FOUND",
                            Msg("Masjid not found", ToString(kw.masjid_id))), t, n)
    ELSE IF masjids[kw.masjid_id].fajr_time # ""
    THEN DbError("Failed to get current prayer", "'>' not supported", t, n)
    ELSE Out(ToolResultFail("NOT_FOUND", Msg("No prayer times available", "")), t, n)

\* DatabaseClient.get_daily_hadith / get_random_hadith: DailyHadith has no
\* attribute hadith_text_en, so building the payload raises AttributeError
get_hadith(what, fault, detail, t, n) ==
    IF fault = "pre"
    THEN DbError(what, detail, t, n)
    ELSE IF fault = "empty"
    THEN Out(ToolResultFail("NOT_FOUND", Msg("No hadith available", "")), t, n)
    ELSE DbError(what, "no attribute 'hadith_text_en'", t, n)

\* parameters without a default in the signature of the bound function
RequiredParams(name) ==
    CASE name = "create_task" -> {"title"}
      [] name \in {"update_task", "delete_task", "complete_task"} -> {"task_id"}
      [] name \in {"get_masjid_details", "get_prayer_times", "get_current_prayer"}
            -> {"masjid_id"}
      [] OTHER -> {}

\* callable_func(user_id=user_id, **kwargs) binds; otherwise TypeError
Binds(name, kw) == RequiredParams(name) \subseteq DOMAIN kw

\* callable_func of the CallableTool registered under the name
Handler(name, user, kw, fault, detail, t, n) ==
    CASE name = "create_task" -> create_task(user, kw, fault, detail, t, n)
      [] name = "list_tasks" -> list_tasks(user, kw, fault, detail, t, n)
      [] name = "update_task" -> update_task(user, kw, fault, detail, t, n)
      [] name = "delete_task" -> delete_task(user, kw, fault, detail, t, n)
      [] name = "complete_task" -> complete_task(user, kw, fault, detail, t, n)
      [] name = "list_masjids" -> list_masjids(user, kw, fault, detail, t, n)
      [] name = "get_masjid_details" -> get_masjid_details(user, kw, fault, detail, t, n)
      [] name = "search_masjids" -> search_masjids(user, kw, fault, detail, t, n)
      [] name = "get_prayer_times" -> get_masjid_details(user, kw, fault, detail, t, n)
      [] name = "get_current_prayer" -> get_current_prayer(user, kw, fault, detail, t, n)
      [] name = "get_daily_hadith" -> get_hadith("Failed to get daily hadith", fault, detail, t, n)
      [] name = "get_random_hadith" -> get_hadith("Failed to get random hadith", fault, detail, t, n)

\* the dict CallableTool.execute returns from its except clause
ExecutionError(name) ==
    [success |-> FALSE, error |-> "EXECUTION_ERROR",
     error_message |-> Msg("Tool execution failed", "TypeError")]

CallableTool_execute_noCatch(name, user, kw, fault, detail, t, n) ==
    IF ~Binds(name, kw)
    THEN [raised |-> TRUE, raw |-> None, res |-> ExecutionError(name),
          tasks |-> t, nextId |-> n]
    ELSE LET out == Handler(name, user, kw, fault, detail, t, n)
         IN  [raised |-> FALSE, raw |-> Some(out.res), res |-> to_dict(out.res),
              tasks |-> out.tasks, nextId |-> out.nextId]

\* CallableTool.execute: the dict it returns and the table afterwards
CallableTool_execute(name, user, kw, fault, detail, t, n) ==
    IF ~Binds(name, kw)
    THEN [raised |-> FALSE, raw |-> None, res |-> ExecutionError(name),
          tasks |-> t, nextId |-> n]
    ELSE LET out == Handler(name, user, kw, fault, detail, t, n)
         IN  [raised |-> FALSE, raw |-> Some(out.res), res |-> to_dict(out.res),
              tasks |-> out.tasks, nextId |-> out.nextId]

ToolNotFound_raises(name, reg) ==
    [raised |-> TRUE, res |-> [success |-> FALSE, error |-> "ToolNotFoundError"]]

\* the dict ToolRegistry.execute returns for a name that is not registered
ToolNotFound(name, reg) ==
    [raised |-> FALSE,
     res |-> [success |-> FALSE, error |-> "TOOL_NOT_FOUND",
              error_message |-> Msg("Tool not found in registry", name),
              available_tools |-> reg]]

\* ToolRegistry.execute on the registry `reg`
Registry_execute(reg, name, user, kw, fault, detail, t, n) ==
    IF name \notin reg
    THEN LET nf == ToolNotFound(name, reg)
         IN  [raised |-> nf.raised, raw |-> None, res |-> nf.res,
              tasks |-> t, nextId |-> n]
    ELSE LET r == CallableTool_execute(name, user, kw, fault, detail, t, n)
         IN  IF r.raised
             THEN [raised |-> FALSE, raw |-> None,
                   res |-> [success |-> FALSE, error |-> "TOOL_EXECUTION_ERROR",
                            error_message |-> Msg("Failed to execute tool", name)],
                   tasks |-> r.tasks, nextId |-> r.nextId]
             ELSE r

(***************************************************************************)
(* Tool calls                                                              *)
(***************************************************************************)

EmptyKw == <<>>

\* keyword arguments a caller passes to each tool
Kwargs(name) ==
    CASE name = "create_task" ->
            {EmptyKw} \cup {[title |-> ti] : ti \in Titles}
      [] name = "list_tasks" ->
            {EmptyKw, [completed |-> TRUE], [priority |-> "HIGH"]}
      [] name = "update_task" ->
            {EmptyKw}
              \cup {[task_id |-> i, title |-> PyNone] : i \in TaskIds}
              \cup {[task_id |-> i, priority |-> "HIGH"] : i \in TaskIds}
              \cup {[task_id |-> 1, notes |-> "x"]}
      [] name \in {"delete_task", "complete_task"} ->
            {EmptyKw} \cup {[task_id |-> i] : i \in TaskIds}
      [] name = "list_masjids" ->
            {EmptyKw, [area |-> "dha"]}
      [] name = "search_masjids" ->
            {[name |-> "noor"], [area |-> PyNone]}
      [] name \in {"get_masjid_details", "get_prayer_times", "get_current_prayer"} ->
            {EmptyKw} \cup {[masjid_id |-> i] : i \in MasjidIds}
      [] OTHER -> {EmptyKw}

\* where the storage layer can fail during the handler of each tool
FaultsOf(name) ==
    IF name \in {"create_task", "update_task", "complete_task"}
    THEN {"none", "pre", "post"}
    ELSE IF name \in Range(HADITH_TOOLS)
    THEN {"none", "pre", "empty"}
    ELSE {"none", "pre"}

DetailsOf(fault) == IF fault \in {"pre", "post"} THEN ErrTexts ELSE {""}

\* execute_tool(name, user_id, **kwargs) on the validated registry
Execute(name, user, kw, fault, detail) ==
    /\ appState = "serving"
    /\ LET r == Registry_execute(registry.tools, name, user, kw, fault, detail,
                                 tasks, nextId)
       IN  /\ r.nextId <= MaxIds + 1
           /\ tasks' = r.tasks
           /\ nextId' = r.nextId
           /\ prevTasks' = tasks
           /\ lastCall' = [tool |-> name, user_id |-> user, kwargs |-> kw,
                           fault |-> fault, raised |-> r.raised, raw |-> r.raw,
                           result |-> r.res]
    /\ registry' = [registry EXCEPT !.tools = ToolsAfter("execute", registry.tools)]
    /\ UNCHANGED <<declared, appState, masjids>>
    /\ UNCHANGED <<genVars, chatVars>>

\* the handlers of the masjid, prayer and hadith tools ignore user_id
CallersOf(name) == IF name \in Range(TASK_MANAGEMENT_TOOLS) THEN Users ELSE {FirstUser}

\* a call whose arguments do not bind never reaches the storage layer
FaultsFor(name, kw) == IF Binds(name, kw) THEN FaultsOf(name) ELSE {"none"}

Call(name) ==
    \E user \in CallersOf(name), kw \in Kwargs(name) :
        \E fault \in FaultsFor(name, kw) :
            \E detail \in DetailsOf(fault) : Execute(name, user, kw, fault, detail)

CreateTask == Call("create_task")
ListTasks == Call("list_tasks")
UpdateTask == Call("update_task")
DeleteTask == Call("delete_task")
CompleteTask == Call("complete_task")
MasjidTool == \E name \in Range(MASJID_TOOLS) : Call(name)
PrayerTool == \E name \in Range(PRAYER_TOOLS) : Call(name)
HadithTool == \E name \in Range(HADITH_TOOLS) : Call(name)
UnknownTool == \E name \in {"nonexistent_tool", ExtraTool} : Call(name)

(***************************************************************************)
(* Intent classifier: chatbot/agent/agent.py detect_intent                 *)
(***************************************************************************)

\* A message is a sequence of words, standing for the words joined by single
\* spaces.  The words the messages are built from: the pattern words, words
\* that contain a pattern word ("tasks", "address"), a capitalised word and
\* words no pattern mentions.
Words ==
    {"task", "tasks", "add", "address", "delete", "Delete", "list", "show",
     "urgent", "masjid", "area", "hello", "DHA", "my", "fajr", "namaz", "kahan"}

MaxWords == 3

Messages == UNION {[1..n -> Words] : n \in 1..MaxWords}

\* str.lower, word by word
LowerWord(w) ==
    CASE w = "Delete" -> "delete"
      [] w = "DHA" -> "dha"
      [] OTHER -> w

Lower(m) == [i \in DOMAIN m |-> LowerWord(m[i])]

\* the pattern words a word begins with, ends with, contains
Begins(w) ==
    CASE w = "tasks" -> {"task"}
      [] w = "address" -> {"add"}
      [] OTHER -> {w}

Ends(w) ==
    CASE w \in {"tasks", "address"} -> {}
      [] OTHER -> {w}

Contains(w) == Begins(w) \cup Ends(w)

\* re.search of  (a1|a2|..)\s+(b1|b2|..) : a word ending in some a, directly
\* followed by a word beginning with some b
Adj(A, B) == [kind |-> "adj", a |-> A, b |-> B]

\* re.search of  (a1|..)\s+.*(b1|..)  : a word ending in some a, and some b
\* in a later word
AdjThen(A, B) == [kind |-> "adjthen", a |-> A, b |-> B]

\* re.search of  (a1|..).*(b1|..) : some a, and some b in a later word (no
\* word of Words contains two pattern words)
Then(A, B) == [kind |-> "then", a |-> A, b |-> B]

Search(p, m) ==
    CASE p.kind = "adj" ->
            \E i \in 1..(Len(m) - 1) :
                Ends(m[i]) \cap p.a # {} /\ Begins(m[i + 1]) \cap p.b # {}
      [] p.kind = "adjthen" ->
            \E i \in 1..Len(m) : \E j \in 1..Len(m) :
                i < j /\ Ends(m[i]) \cap p.a # {} /\ Contains(m[j]) \cap p.b # {}
      [] OTHER ->
            \E i \in 1..Len(m) : \E j \in 1..Len(m) :
                i < j /\ Contains(m[i]) \cap p.a # {} /\ Contains(m[j]) \cap p.b # {}

PrayerNames == {"fajr", "dhuhr", "asr", "maghrib", "isha"}

create_patterns ==
    {Adj({"task"}, {"create", "bana", "add", "new"}),
     AdjThen({"bana", "create", "add"}, {"task"}),
     Then({"namaz"}, {"task"}),
     Then(PrayerNames, {"task"})}

update_patterns ==
    {Adj({"task"}, {"update", "edit", "change", "modify"}),
     Then({"complete", "done", "finish"}, {"task"}),
     Then({"urgent"}, {"task"}),
     Then({"task"}, {"urgent"})}

delete_patterns ==
    {Adj({"task"}, {"delete", "remove", "cancel"}),
     Then({"delete", "remove", "cancel"}, {"task"})}

list_patterns ==
    {Then({"show", "display", "list", "dikhao"}, {"task"}),
     Then({"task"}, {"list"}),
     Adj({"mery"}, {"task"}),
     Adj({"konse"}, {"task"})}

masjid_patterns ==
    {Then({"masjid"}, {"search"}),
     Adj({"konsi"}, {"masjid"}),
     Then({"masjid"}, {"area"}),
     Then({"namaz"}, {"kahan"})}

\* the element of a one-element set: Only({F(x) : x \in {e}}) is F(e) with
\* e evaluated once
Only(S) == CHOOSE x \in S : TRUE

\* `for pattern in patterns: if re.search(pattern, msg_lower)`
AnyMatch(patterns, m) == \E p \in patterns : Search(p, m)

detect_intent_listFirst(user_message) ==
    LET msg_lower == Lower(user_message) IN
    IF AnyMatch(create_patterns, msg_lower) THEN "create_task"
    ELSE IF AnyMatch(update_patterns, msg_lower) THEN "update_task"
    ELSE IF AnyMatch(list_patterns, msg_lower) THEN "list_tasks"
    ELSE IF AnyMatch(delete_patterns, msg_lower) THEN "delete_task"
    ELSE IF AnyMatch(masjid_patterns, msg_lower) THEN "search_masjids"
    ELSE "conversation"

\* detect_intent: the loops in the order of the code, each returning at its
\* first match
detect_intent(user_message) ==
    Only({IF AnyMatch(create_patterns, msg_lower) THEN "create_task"
          ELSE IF AnyMatch(update_patterns, msg_lower) THEN "update_task"
          ELSE IF AnyMatch(delete_patterns, msg_lower) THEN "delete_task"
          ELSE IF AnyMatch(list_patterns, msg_lower) THEN "list_tasks"
          ELSE IF AnyMatch(masjid_patterns, msg_lower) THEN "search_masjids"
          ELSE "conversation" :
          msg_lower \in {Lower(user_message)}})

(***************************************************************************)
(* Dispatcher: chatbot/agent/agent.py extract_task_params, run_agent       *)
(***************************************************************************)

\* the strings a lower-case word contains, among those the code looks for
\* with `in`
Within(w) ==
    CASE w = "tasks" -> {"task", "tasks"}
      [] w = "address" -> {"add", "address"}
      [] w = "kahan" -> {"ka", "kahan"}
      [] OTHER -> {w}

\* the strings the lower-cased message contains
WithinMessage(m) == UNION {Within(LowerWord(m[i])) : i \in DOMAIN m}

\* `x in msg_lower` for some x of X
AnyIn(X, m) == WithinMessage(m) \cap X # {}

prayers == <<"fajr", "dhuhr", "asr", "maghrib", "isha">>

\* str.capitalize on the prayer names
Capitalize(w) ==
    CASE w = "fajr" -> "Fajr"
      [] w = "dhuhr" -> "Dhuhr"
      [] w = "asr" -> "Asr"
      [] w = "maghrib" -> "Maghrib"
      [] w = "isha" -> "Isha"
      [] OTHER -> w

\* the words re.sub(rf'\b{word}\b', '', title, flags=re.IGNORECASE) removes
TitleStopWords == {"task", "bana", "create", "add", "do", "kr", "ka", "ki"}

\* a dict with one key
Entry(key, value) == [k \in {key} |-> value]

\* dict.get(key, default)
Get(d, key, default) == IF key \in DOMAIN d THEN d[key] ELSE default

\* extract_task_params: the params dict (no word of Words holds a time, so
\* the key 'time' is never set); the title keeps the words that are left
extract_task_params(user_message, intent_type) ==
    LET found == {k \in 1..Len(prayers) : AnyIn({prayers[k]}, user_message)}
        first == CHOOSE k \in found : \A j \in found : k <= j
        linked == IF found = {} THEN <<>>
                  ELSE Entry("linked_prayer", Capitalize(prayers[first]))
        priority ==
            IF AnyIn({"urgent", "zaruri", "important"}, user_message) THEN "high"
            ELSE IF AnyIn({"low", "kam"}, user_message) THEN "low"
            ELSE "medium"
        IsKept(w) == LowerWord(w) \notin TitleStopWords
        title == IF intent_type = "create_task"
                 THEN Entry("title", SelectSeq(user_message, IsKept))
                 ELSE <<>>
    IN  linked @@ Entry("priority", priority) @@ title

\* a text built from a fixed template
Str(template) == [template |-> template]

\* a string interpolated into a reply, as a text without detail
Text(s) == Msg(s, "")

FailureReply_leaksMessage(template, result) ==
    [template |-> template,
     error |-> Get(result, "error_message", Text("Unknown error"))]

\* f"Failed to ...: {result.get('error', 'Unknown error')}"
FailureReply(template, result) ==
    [template |-> template,
     error |-> Text(Get(result, "error", "Unknown error"))]

\* the area named in the message:
\* re.search(r'(North Nazimabad|DHA|Clifton|Gulshan|Malir)', ..., re.IGNORECASE)
AreaOf(user_message) ==
    LET hits == {i \in DOMAIN user_message :
                    LowerWord(user_message[i]) \in {"dha", "clifton", "gulshan", "malir"}}
    IN  IF hits = {} THEN PyNone
        ELSE user_message[CHOOSE i \in hits : \A j \in hits : i <= j]

\* `role.upper()`
UpperRole(role) ==
    CASE role = "user" -> "USER"
      [] role = "assistant" -> "ASSISTANT"
      [] OTHER -> role

conversation_context_historyOnly(user_message, conversation_history) ==
    IF conversation_history # None /\ conversation_history[1] # <<>>
    THEN [k \in 1..Len(conversation_history[1]) |->
             [role |-> UpperRole(conversation_history[1][k].role),
              content |-> conversation_history[1][k].content]]
    ELSE <<[role |-> "", content |-> user_message]>>

\* the prompt run_agent assembles: one "ROLE: content" line per history
\* message and the line "USER: message", or the bare message without history
conversation_context(user_message, conversation_history) ==
    IF conversation_history # None /\ conversation_history[1] # <<>>
    THEN [k \in 1..Len(conversation_history[1]) |->
             [role |-> UpperRole(conversation_history[1][k].role),
              content |-> conversation_history[1][k].content]]
         \o <<[role |-> "USER", content |-> user_message]>>
    ELSE <<[role |-> "", content |-> user_message]>>

\* what gemini_client.generate_response ends with: the text, or one of the
\* typed failures
LlmOutcomes == {"text"} \cup GeminiErrors

LlmText == <<"wa", "alaikum", "assalam">>

\* what run_agent did: the exception it raised ("none" when it returned),
\* its reply, the tool call it made (None when it made none), the number of
\* generate_response calls with their prompt, and the task table afterwards
AgentOut(intent, raised, reply, exec, llmCalls, prompt, t, n) ==
    [intent |-> intent, raised |-> raised, reply |-> reply, exec |-> exec,
     llmCalls |-> llmCalls, prompt |-> prompt, tasks |-> t, nextId |-> n]

\* execute_tool(name, user_id, **kw) as run_agent calls it
AgentTool(reg, name, user, kw, env, t, n) ==
    Only({[out |-> r,
           call |-> [tool |-> name, user_id |-> user, kwargs |-> kw,
                     fault |-> env.fault, raised |-> r.raised, raw |-> r.raw,
                     result |-> r.res]] :
          r \in {Registry_execute(reg, name, user, kw, env.fault, env.detail, t, n)}})

\* what an f-string prints for d.get(key): the value, or None when the key
\* is absent
Shown(d, key) == IF key \in DOMAIN d THEN Some(d[key]) ELSE None

ClientMissing_never(client) == FALSE

\* `if gemini_client is None`
ClientMissing(client) == client = "None"

Branch_searchViaModel(intent) ==
    IF intent \in {"create_task", "list_tasks", "update_task", "delete_task"}
    THEN intent
    ELSE "conversation"

\* the if / elif chain of run_agent: one branch per tool intent, and the
\* else branch (conversation with the model) for everything else
Branch(intent) ==
    IF intent \in {"create_task", "list_tasks", "update_task", "delete_task",
                   "search_masjids"}
    THEN intent
    ELSE "conversation"

\* run_agent: env holds what the storage layer and the generation service do
\* during this call
run_agent(reg, user_id, user_message, conversation_history, client, env, t, n) ==
    Only({
    CASE Branch(intent) = "create_task" ->
            LET params == extract_task_params(user_message, intent)
                kw == [title |-> Get(params, "title", <<"New", "Task">>),
                       description |-> user_message,
                       priority |-> Get(params, "priority", "medium"),
                       linked_prayer |-> Get(params, "linked_prayer", PyNone)]
            IN  Only({
                  LET result == x.out.res
                      task == Get(result, "task", <<>>)
                  IN  AgentOut(intent, "none",
                        IF result.success
                        THEN [template |-> "Task created successfully!",
                              title |-> Shown(task, "title"),
                              priority |-> Shown(task, "priority"),
                              linked_prayer |-> Shown(task, "linked_prayer")]
                        ELSE FailureReply("Failed to create task", result),
                        Some(x.call), 0, None, x.out.tasks, x.out.nextId) :
                  x \in {AgentTool(reg, "create_task", user_id, kw, env, t, n)}})
      [] Branch(intent) = "list_tasks" ->
            Only({
              LET result == x.out.res
                  listed == Get(result, "tasks", <<>>)
              IN  AgentOut(intent, "none",
                    IF result.success
                    THEN IF listed = <<>>
                         THEN Str("You don't have any tasks yet. Would you like to create one?")
                         ELSE [template |-> "Your Tasks", items |-> listed]
                    ELSE FailureReply("Failed to fetch tasks", result),
                    Some(x.call), 0, None, x.out.tasks, x.out.nextId) :
              x \in {AgentTool(reg, "list_tasks", user_id, EmptyKw, env, t, n)}})
      [] Branch(intent) = "update_task" ->
            AgentOut(intent, "none",
                Str("To update a task, please provide the task number or title you want to update."),
                None, 0, None, t, n)
      [] Branch(intent) = "delete_task" ->
            AgentOut(intent, "none",
                Str("To delete a task, please provide the task number or title you want to delete."),
                None, 0, None, t, n)
      [] Branch(intent) = "search_masjids" ->
            LET area == AreaOf(user_message) IN
            Only({
              LET result == x.out.res
                  found == Get(result, "masjids", {})
              IN  AgentOut(intent, "none",
                    IF result.success
                    THEN IF found = {}
                         THEN [template |-> "No masjids found", area |-> area]
                         ELSE [template |-> "Found masjid(s)", area |-> area,
                               items |-> found]
                    ELSE FailureReply("Failed to search masjids", result),
                    Some(x.call), 0, None, x.out.tasks, x.out.nextId) :
              x \in {AgentTool(reg, "search_masjids", user_id, [area |-> area],
                                env, t, n)}})
      [] OTHER ->
            LET prompt == conversation_context(user_message, conversation_history)
            IN  IF ClientMissing(client)
                THEN AgentOut(intent, "ValueError", Str(""), None, 0, None, t, n)
                ELSE IF env.llm = "text"
                THEN AgentOut(intent, "none", [template |-> "generated", text |-> LlmText],
                              None, 1, Some(prompt), t, n)
                ELSE AgentOut(intent, env.llm, Str(""), None, 1, Some(prompt), t, n) :
    intent \in {detect_intent(user_message)}})

(***************************************************************************)
(* Chat endpoint: routers/chatbot.py, chatbot/utils/language.py            *)
(***************************************************************************)

urdu_keywords ==
    {"aaj", "kal", "ka", "kya", "hai", "mujhe", "sunao", "do", "bana", "se",
     "pehle", "baad", "mein", "main", "namaz", "sadaqah", "karna", "chahiye",
     "dikhaao", "batao", "chahte", "hain", "liye", "wale", "nahi", "koi",
     "kitni", "kitne", "kahan", "kis", "bare"}

MinUrduKeywords == 2

\* detect_language: "ur" when at least two keywords occur in the message
detect_language(user_message) ==
    LET urdu_count == Cardinality(urdu_keywords \cap WithinMessage(user_message))
    IN  IF urdu_count >= MinUrduKeywords THEN "ur" ELSE "en"

auth_required_keywords ==
    {"create", "add", "bana", "banao", "delete", "remove", "hata",
     "update", "edit", "change", "badal", "task", "reminder"}

\* any(keyword in message_lower for keyword in auth_required_keywords)
requires_auth(message) == AnyIn(auth_required_keywords, message)

ErrorCode_allInternal(exc) ==
    CASE exc = "GeminiAuthError" -> "authentication_failed"
      [] exc = "GeminiNetworkError" -> "network_error"
      [] OTHER -> "internal_error"

\* the except clauses of chat, in their order: the response code of each
\* exception class
ErrorCode(exc) ==
    CASE exc = "GeminiAuthError" -> "authentication_failed"
      [] exc = "GeminiQuotaError" -> "quota_exceeded"
      [] exc = "GeminiNetworkError" -> "network_error"
      [] exc = "GeminiError" -> "internal_error"
      [] OTHER -> "internal_error"

\* the fixed error_message of each except clause, in the detected language;
\* three of them end with the request id
ErrorText(exc, language, request_id) ==
    CASE exc = "GeminiAuthError" ->
            [template |-> "service unavailable, configuration issue",
             language |-> language, reference |-> Some(request_id)]
      [] exc = "GeminiQuotaError" ->
            [template |-> "high demand, try again in a few moments",
             language |-> language, reference |-> None]
      [] exc = "GeminiNetworkError" ->
            [template |-> "unable to connect, check your connection",
             language |-> language, reference |-> None]
      [] exc = "GeminiError" ->
            [template |-> "the chatbot encountered an issue",
             language |-> language, reference |-> Some(request_id)]
      [] OTHER ->
            [template |-> "an unexpected error occurred",
             language |-> language, reference |-> Some(request_id)]

\* ChatResponse(success=..., message=..., error=..., error_message=...,
\* request_id=...); tool_used and data are never set
ChatResponse(success, message, error, error_message, request_id) ==
    [success |-> success, message |-> message, error |-> error,
     error_message |-> error_message, tool_used |-> None, data |-> None,
     request_id |-> request_id]

\* the failure envelope every error path of chat returns
Failure(code, text, request_id) ==
    ChatResponse(FALSE, Str(""), Some(code), Some(text), request_id)

\* what one chat call did: escaped = an exception left the handler (then
\* there is no response), exc = the exception its try block caught
ChatOut(req, escaped, exc, dispatched, agent, response, client, t, n) ==
    [phase |-> "done", req |-> req,
     escaped |-> escaped, exc |-> exc, dispatched |-> dispatched,
     intent |-> agent.intent,
     exec |-> agent.exec, llmCalls |-> agent.llmCalls, prompt |-> agent.prompt,
     response |-> response, client |-> client, tasks |-> t, nextId |-> n]

\* run_agent was not called
NoAgent(t, n) == AgentOut("none", "none", Str(""), None, 0, None, t, n)

\* chat: the handler from the request to the response.  req.history is None
\* for conversation_history: null; env.cfgOk tells whether get_gemini_config
\* and GeminiClient(config) succeed when the client is still None
chat(req, env, client, reg, t, n) ==
    LET request_id == req.request_id
        language == detect_language(req.message)
    IN
    IF req.history = None
    THEN \* len(chat_request.conversation_history) in the log call, before try
         ChatOut(req, TRUE, "TypeError", FALSE, NoAgent(t, n), None, client, t, n)
    ELSE IF client = "None" /\ ~env.cfgOk
    THEN ChatOut(req, FALSE, "ValueError", FALSE, NoAgent(t, n),
                 Some(Failure(ErrorCode("ValueError"),
                              ErrorText("ValueError", language, request_id),
                              request_id)),
                 client, t, n)
    ELSE IF requires_auth(req.message) /\ req.user_id = None
    THEN ChatOut(req, FALSE, "none", FALSE, NoAgent(t, n),
                 Some(Failure("authentication_required",
                              [template |-> "please log in to perform this action",
                               language |-> language, reference |-> None],
                              request_id)),
                 "ready", t, n)
    ELSE Only({
           ChatOut(req, FALSE, a.raised, TRUE, a,
                   IF a.raised = "none"
                   THEN Some(ChatResponse(TRUE, a.reply, None, None, request_id))
                   ELSE Some(Failure(ErrorCode(a.raised),
                                     ErrorText(a.raised, language, request_id),
                                     request_id)),
                   "ready", a.tasks, a.nextId) :
           a \in {run_agent(reg,
                            IF req.user_id = None THEN 0 ELSE req.user_id[1],
                            req.message,
                            IF req.history[1] # <<>> THEN req.history ELSE None,
                            "ready", env, t, n)}})

\* no chat request and no classifier call yet
InitChatIdle ==
    /\ intentMsg = <<>>
    /\ intentOut = "none"
    /\ chatPc = "starting"
    /\ gemini_client = "None"
    /\ lastChat = [phase |-> "none"]
    /\ health = [pc |-> "idle"]
    /\ conc = [phase |-> "idle"]

\* a detect_intent call, with any message
IntentCall ==
    /\ intentMsg = <<>>
    /\ intentMsg' \in Messages
    /\ UNCHANGED <<intentOut, chatPc, gemini_client, lastChat, health, conc>>
    /\ UNCHANGED <<genVars, regVars, dbVars, lastCall>>

\* the call returns
DetectIntent ==
    /\ intentMsg # <<>>
    /\ intentOut = "none"
    /\ intentOut' = detect_intent(intentMsg)
    /\ UNCHANGED <<intentMsg, chatPc, gemini_client, lastChat, health, conc>>
    /\ UNCHANGED <<genVars, regVars, dbVars, lastCall>>

(***************************************************************************)
(* Chat requests                                                           *)
(***************************************************************************)

\* the messages sent to the endpoint: one or two for every intent, with
\* and without a keyword of auth_required_keywords, in both languages
ChatMessages ==
    {<<"hello">>, <<"kahan", "namaz">>,
     <<"add", "fajr", "task">>,
     <<"show", "my", "tasks">>,
     <<"urgent", "task">>,
     <<"delete", "my", "task">>, <<"Delete", "task", "list">>,
     <<"masjid", "area", "DHA">>, <<"namaz", "kahan">>, <<"masjid", "area", "address">>}

\* user_id: None or the id of a logged-in user
ChatUsers == {None, Some(FirstUser)}

\* conversation_history: null, [] and an exchange in which the assistant
\* asks whether to delete and the user agrees
ConfirmExchange ==
    <<[role |-> "assistant", content |-> <<"delete", "this", "task?">>],
      [role |-> "user", content |-> <<"yes">>]>>

Histories == {None, Some(<<>>), Some(ConfirmExchange)}

\* request.state.request_id, or the uuid4 generated for the request
RequestIds == {"req-1", "req-2"}

Requests ==
    [message : ChatMessages, user_id : ChatUsers, history : Histories,
     request_id : RequestIds]

\* str(e) of the storage exception: the texts a response must not show
ErrDetails == ErrTexts \cup {"no such table: spiritual_tasks"}

\* what the storage layer and the generation service can do during the
\* handling of req: only what the handling reaches is varied
Envs(req, client) ==
    LET reached == /\ req.history # None
                   /\ ~(requires_auth(req.message) /\ req.user_id = None)
        intent == detect_intent(req.message)
        llms == IF reached /\ intent = "conversation" THEN LlmOutcomes ELSE {"text"}
        faults == IF reached /\ intent = "create_task" THEN {"none", "pre", "post"}
                  ELSE IF reached /\ intent \in {"list_tasks", "search_masjids"}
                       THEN {"none", "pre"}
                  ELSE {"none"}
    IN  [cfgOk : IF client = "None" /\ req.history # None THEN BOOLEAN ELSE {TRUE},
         llm : llms, fault : faults, detail : ErrTexts]

\* startup_event: the client is built, or the failure is logged and the
\* client stays None
StartupEvent ==
    /\ chatPc = "starting"
    /\ chatPc' = "ready"
    /\ gemini_client' \in {"None", "ready"}
    /\ UNCHANGED <<intentMsg, intentOut, lastChat, health, conc>>
    /\ UNCHANGED <<genVars, regVars, dbVars, lastCall>>

\* POST /: one chat request, handled to its end
Chat ==
    /\ chatPc = "ready"
    /\ appState = "serving"
    /\ \E req \in Requests : \E env \in Envs(req, gemini_client) :
         \E h \in {chat(req, env, gemini_client, registry.tools, tasks, nextId)} :
             /\ h.nextId <= MaxIds + 1
             /\ tasks' = h.tasks
             /\ nextId' = h.nextId
             /\ prevTasks' = tasks
             /\ gemini_client' = h.client
             /\ lastCall' = IF h.exec # None THEN h.exec[1] ELSE [tool |-> "none"]
             /\ lastChat' =
                  [phase |-> h.phase, req |-> h.req,
                   escaped |-> h.escaped, exc |-> h.exc,
                   dispatched |-> h.dispatched, intent |-> h.intent,
                   exec |-> h.exec, llmCalls |-> h.llmCalls, prompt |-> h.prompt,
                   response |-> h.response,
                   responses |->
                      {h.response} \cup
                      {chat(req, [env EXCEPT !.detail = d], gemini_client,
                            registry.tools, tasks, nextId).response :
                       d \in ErrDetails \ {env.detail}}]
    /\ UNCHANGED <<intentMsg, intentOut, chatPc, health, conc>>
    /\ UNCHANGED <<genVars, regVars, masjids>>

(***************************************************************************)
(* Direct calls of run_agent                                               *)
(***************************************************************************)

\* one message of each intent
AgentMessages ==
    {<<"hello">>, <<"add", "fajr", "task">>, <<"show", "my", "tasks">>,
     <<"urgent", "task">>, <<"delete", "my", "task">>, <<"masjid", "area", "DHA">>}

\* the argument gemini_client: None (the default) or a client
AgentClients == {"None", "ready"}

\* what the storage layer and the generation service would do during the
\* call, whether the call reaches them or not
AgentEnvs ==
    [cfgOk : {TRUE}, llm : LlmOutcomes, fault : {"none"}, detail : ErrTexts]
        \cup [cfgOk : {TRUE}, llm : {"text"}, fault : {"pre"}, detail : ErrTexts]

\* run_agent(user_id, user_message, language, conversation_history,
\* request_id, gemini_client), called by any code
RunAgent ==
    /\ appState = "serving"
    /\ \E user \in {FirstUser}, message \in AgentMessages,
          history \in {None, Some(ConfirmExchange)},
          client \in AgentClients, env \in AgentEnvs :
         \E a \in {run_agent(registry.tools, user, message, history, client, env,
                             tasks, nextId)} :
             /\ a.nextId <= MaxIds + 1
             /\ tasks' = a.tasks
             /\ nextId' = a.nextId
             /\ prevTasks' = tasks
             /\ lastCall' = IF a.exec # None THEN a.exec[1] ELSE [tool |-> "none"]
             /\ lastChat' = [phase |-> "agent", user_id |-> user, message |-> message,
                             history |-> history, client |-> client, env |-> env,
                             intent |-> a.intent, raised |-> a.raised,
                             reply |-> a.reply, exec |-> a.exec,
                             llmCalls |-> a.llmCalls, prompt |-> a.prompt]
    /\ UNCHANGED <<intentMsg, intentOut, chatPc, gemini_client, health, conc>>
    /\ UNCHANGED <<genVars, regVars, masjids>>

(***************************************************************************)
(* Health check: GeminiClient.health_check, GET /health                    *)
(***************************************************************************)

DefaultModel == "gemini-2.0-flash"

HealthError_genericUnknown(exc) ==
    CASE exc = "GeminiAuthError" -> "authentication_failed"
      [] exc = "GeminiQuotaError" -> "quota_exceeded"
      [] exc = "GeminiNetworkError" -> "network_error"
      [] OTHER -> "unknown_error"

\* the except clauses of GeminiClient.health_check, in their order
HealthError(exc) ==
    CASE exc = "GeminiAuthError" -> "authentication_failed"
      [] exc = "GeminiQuotaError" -> "quota_exceeded"
      [] exc = "GeminiNetworkError" -> "network_error"
      [] exc = "GeminiError" -> "gemini_error"
      [] OTHER -> "unknown_error"

\* GeminiClient.health_check once its generate_response call has ended with
\* `result`: the status record (timestamp left out)
client_health_check(result) ==
    IF result.kind = "text"
    THEN [service |-> "gemini", status |-> "healthy", model |-> DefaultModel]
    ELSE [service |-> "gemini", status |-> "unhealthy",
          error |-> HealthError(result.kind)]

\* the record GET /health returns without a client
NotInitialized ==
    [service |-> "chatbot", status |-> "unhealthy", error |-> "not_initialized"]

\* GET /health: without a client the record not_initialized; with one,
\* GeminiClient.health_check starts its generate_response call
HealthCheck ==
    /\ chatPc = "ready"
    /\ health.pc # "checking"
    /\ genPc # "running"
    /\ IF gemini_client = "None"
       THEN /\ health' = [pc |-> "done", client |-> gemini_client, calls |-> 0,
                          raised |-> FALSE, record |-> NotInitialized]
            /\ UNCHANGED genVars
       ELSE /\ GenerateResponse
            /\ health' = [pc |-> "checking", client |-> gemini_client, calls |-> 1]
    /\ UNCHANGED <<intentMsg, intentOut, chatPc, gemini_client, lastChat, conc>>
    /\ UNCHANGED <<regVars, dbVars, lastCall>>

\* the generate_response call has returned or raised: health_check builds
\* its record and GET /health returns it, healthy or not
HealthReturn ==
    /\ health.pc = "checking"
    /\ genPc \in {"returned", "raised"}
    /\ health' = [pc |-> "done", client |-> health.client, calls |-> health.calls,
                  raised |-> FALSE, record |-> client_health_check(genResult)]
    /\ UNCHANGED <<intentMsg, intentOut, chatPc, gemini_client, lastChat, conc>>
    /\ UNCHANGED <<genVars, regVars, dbVars, lastCall>>

(***************************************************************************)
(* Chat requests in flight at the same time                                *)
(***************************************************************************)

NumSlots == 2
Slots == 1..NumSlots

ConcMessages == {<<"hello">>, <<"add", "fajr", "task">>, <<"show", "my", "tasks">>}

\* the request of slot i: its request id is its own
ConcRequests(i) ==
    [message : ConcMessages, user_id : ChatUsers, history : {None, Some(<<>>)},
     request_id : {IF i = 1 THEN "req-1" ELSE "req-2"}]

SessionView_stale(current, atStart) == atStart

\* `with Session(engine) as session`: a handler call works on the table as
\* it is when the call is made
SessionView(current, atStart) == current

\* NumSlots requests arrive; none has run yet.  start is the state they
\* arrive in
Receive ==
    /\ chatPc = "ready"
    /\ appState = "serving"
    /\ conc.phase = "idle"
    /\ nextId + NumSlots <= MaxIds + 1
    /\ \E reqs \in [Slots -> UNION {ConcRequests(i) : i \in Slots}] :
         /\ \A i \in Slots : reqs[i] \in ConcRequests(i)
         /\ \E envs \in [Slots -> UNION {Envs(reqs[i], "None") : i \in Slots}] :
              /\ \A i \in Slots : envs[i] \in Envs(reqs[i], "None")
              /\ conc' = [phase |-> "running", reqs |-> reqs, envs |-> envs,
                          pc |-> [i \in Slots |-> "start"],
                          resp |-> [i \in Slots |-> None],
                          inits |-> 0,
                          start |-> [tasks |-> tasks, nextId |-> nextId,
                                     client |-> gemini_client]]
    /\ UNCHANGED <<intentMsg, intentOut, chatPc, gemini_client, lastChat, health>>
    /\ UNCHANGED <<genVars, regVars, dbVars, lastCall>>

\* chat of slot i up to `if gemini_client is None`: the log call, which
\* raises for a null history, and the test of the global
ReqStart ==
    /\ conc.phase = "running"
    /\ \E i \in Slots :
         /\ conc.pc[i] = "start"
         /\ conc' = [conc EXCEPT !.pc[i] =
                        IF conc.reqs[i].history = None THEN "done"
                        ELSE IF gemini_client = "None" THEN "init"
                        ELSE "dispatch"]
    /\ UNCHANGED <<intentMsg, intentOut, chatPc, gemini_client, lastChat, health>>
    /\ UNCHANGED <<genVars, regVars, dbVars, lastCall>>

\* chat of slot i: get_gemini_config() and GeminiClient(config), assigned to
\* the global, or the internal_error response when they raise
ReqInit ==
    /\ conc.phase = "running"
    /\ \E i \in Slots :
         /\ conc.pc[i] = "init"
         /\ IF conc.envs[i].cfgOk
            THEN /\ gemini_client' = "ready"
                 /\ conc' = [conc EXCEPT !.pc[i] = "dispatch",
                                         !.inits = conc.inits + 1]
            ELSE /\ gemini_client' = gemini_client
                 /\ conc' = [conc EXCEPT
                               !.pc[i] = "done",
                               !.resp[i] = chat(conc.reqs[i], conc.envs[i], "None",
                                                registry.tools, tasks, nextId).response]
    /\ UNCHANGED <<intentMsg, intentOut, chatPc, lastChat, health>>
    /\ UNCHANGED <<genVars, regVars, dbVars, lastCall>>

\* chat of slot i from the authentication check to the response, with the
\* tool call or the generation call of run_agent
ReqDispatch ==
    /\ conc.phase = "running"
    /\ \E i \in Slots :
         /\ conc.pc[i] = "dispatch"
         /\ \E h \in {chat(conc.reqs[i], conc.envs[i], "ready", registry.tools,
                           SessionView(tasks, conc.start.tasks),
                           SessionView(nextId, conc.start.nextId))} :
              /\ tasks' = h.tasks
              /\ nextId' = h.nextId
              /\ prevTasks' = tasks
              /\ conc' = [conc EXCEPT !.pc[i] = "done", !.resp[i] = h.response]
    /\ UNCHANGED <<intentMsg, intentOut, chatPc, gemini_client, lastChat, health>>
    /\ UNCHANGED <<genVars, regVars, masjids, lastCall>>

(***************************************************************************)
(* Specifications                                                          *)
(***************************************************************************)

DefaultMaxRetries == 2
DefaultRetryDelay == 10

\* the tool layer: startup followed by tool calls
Init ==
    /\ InitReg
    /\ InitDb
    /\ max_retries = DefaultMaxRetries
    /\ retry_delay = DefaultRetryDelay
    /\ genPc = "idle"
    /\ attempt = 0
    /\ outcomes = <<>>
    /\ delays = <<>>
    /\ genResult = [kind |-> "none"]
    /\ InitChatIdle

Next ==
    \/ Lifespan
    \/ CreateTask
    \/ ListTasks
    \/ UpdateTask
    \/ DeleteTask
    \/ CompleteTask
    \/ MasjidTool
    \/ PrayerTool
    \/ HadithTool
    \/ UnknownTool

Spec == Init /\ [][Next]_vars

\* the registry: startup, the singleton accessor, the query methods and tool
\* calls, on every build of the tool modules
NextReg ==
    \/ Lifespan
    \/ GetToolRegistry
    \/ RegistryQuery
    \/ CreateTask
    \/ ListTasks
    \/ UnknownTool

SpecReg == Init /\ [][NextReg]_vars

\* the generation client alone
InitGenOnly ==
    /\ InitGen
    /\ declared = DeclaredTools
    /\ registry = NoRegistry
    /\ appState = "starting"
    /\ tasks = <<>>
    /\ nextId = 1
    /\ prevTasks = <<>>
    /\ masjids = MasjidTable
    /\ lastCall = [tool |-> "none"]
    /\ InitChatIdle

GenCall == GenerateResponse /\ UNCHANGED <<regVars, dbVars, lastCall, chatVars>>
GenStep == GenAttempt /\ UNCHANGED <<regVars, dbVars, lastCall, chatVars>>

NextGen == GenCall \/ GenStep

SpecGen == InitGenOnly /\ [][NextGen]_vars

\* every attempt returns or raises within the request timeout
SpecGenFair == SpecGen /\ WF_vars(GenStep)

\* the health endpoint: startup, then health checks whose generation call
\* runs attempt by attempt
NextHealth == StartupEvent \/ HealthCheck \/ GenStep \/ HealthReturn

SpecHealth == InitGenOnly /\ [][NextHealth]_vars

\* the intent classifier alone, called with any message of up to MaxWords words
InitIntent ==
    /\ max_retries = DefaultMaxRetries
    /\ retry_delay = DefaultRetryDelay
    /\ genPc = "idle"
    /\ attempt = 0
    /\ outcomes = <<>>
    /\ delays = <<>>
    /\ genResult = [kind |-> "none"]
    /\ declared = DeclaredTools
    /\ registry = NoRegistry
    /\ appState = "starting"
    /\ InitDb
    /\ InitChatIdle

NextIntent == IntentCall \/ DetectIntent

SpecIntent == InitIntent /\ [][NextIntent]_vars

\* the chat endpoint of the shipped application: startup, then requests
InitChat ==
    /\ max_retries = DefaultMaxRetries
    /\ retry_delay = DefaultRetryDelay
    /\ genPc = "idle"
    /\ attempt = 0
    /\ outcomes = <<>>
    /\ delays = <<>>
    /\ genResult = [kind |-> "none"]
    /\ declared = DeclaredTools
    /\ registry = NoRegistry
    /\ appState = "starting"
    /\ InitDb
    /\ InitChatIdle

NextChat == Lifespan \/ StartupEvent \/ Chat

SpecChat == InitChat /\ [][NextChat]_vars

\* the dispatcher called on its own, with and without a client
NextAgent == Lifespan \/ RunAgent

SpecAgent == InitChat /\ [][NextAgent]_vars

\* chat requests that overlap: each runs step by step, in any interleaving
NextConc == Lifespan \/ StartupEvent \/ Receive \/ ReqStart \/ ReqInit \/ ReqDispatch

SpecConc == InitChat /\ [][NextConc]_vars

(***************************************************************************)
(* Properties of the generation client (checked under SpecGen)             *)
(***************************************************************************)

NonRetried == {"Unauthenticated", "ResourceExhausted", "NotFound"}

AllTransient(s) == \A i \in 1..Len(s) : s[i] \in Transient

\* C1: an auth, quota or not-found failure is never retried: the attempt on
\* which it occurs is the last one of the call, no backoff sleep follows it,
\* and the call has raised GeminiAuthError, GeminiQuotaError or GeminiError
\* respectively; an auth failure on the first attempt leaves one attempt and
\* no retry.
C1_NeverRetried ==
    /\ \A i \in 1..Len(outcomes) :
          outcomes[i] \in NonRetried =>
              /\ i = Len(outcomes)
              /\ attempt = i
              /\ Len(delays) = i - 1
              /\ genPc = "raised"
              /\ (outcomes[i] = "Unauthenticated" => genResult.kind = "GeminiAuthError")
              /\ (outcomes[i] = "ResourceExhausted" => genResult.kind = "GeminiQuotaError")
              /\ (outcomes[i] = "NotFound" => genResult.kind = "GeminiError")
    /\ (outcomes # <<>> /\ outcomes[1] = "Unauthenticated") =>
          (attempt = 1 /\ delays = <<>>)

C1_Witness ==
    /\ genPc = "raised"
    /\ Len(outcomes) = 3
    /\ outcomes[3] = "ResourceExhausted"
    /\ Len(delays) = 2
    /\ genResult.kind = "GeminiQuotaError"

\* C2: k consecutive transient failures with k <= max_retries are all
\* retried (the call has not raised after them), and a success on the next
\* attempt returns the text after exactly k retries; in particular for
\* max_retries = 3 and k = 3.
C2_RetriesUpToMax ==
    \A k \in 0..max_retries :
        (Len(outcomes) >= k /\ AllTransient(SubSeq(outcomes, 1, k))) =>
            /\ (Len(outcomes) = k => genPc # "raised")
            /\ (Len(outcomes) = k + 1 /\ outcomes[k + 1] = "ok") =>
                  (genPc = "returned" /\ genResult.kind = "text" /\ Len(delays) = k)

\* C3: every call ends: it makes at most max_retries + 1 attempts, a call
\* that is running eventually returns the text or raises one typed
\* failure, and a call whose attempts all failed with a transient network
\* error ends by raising GeminiNetworkError.
C3_Terminates ==
    /\ [](Len(outcomes) <= max_retries + 1 /\ attempt = Len(outcomes))
    /\ [](genPc = "returned" => genResult.kind = "text")
    /\ [](genPc = "raised" => genResult.kind \in GeminiErrors)
    /\ []((genPc \in {"returned", "raised"} /\ AllTransient(outcomes))
              => (genPc = "raised" /\ genResult.kind = "GeminiNetworkError"))
    /\ (genPc = "running" ~> genPc \in {"returned", "raised"})

C3_Witness ==
    /\ genPc = "raised"
    /\ Len(outcomes) = 3
    /\ AllTransient(outcomes)
    /\ genResult.kind = "GeminiNetworkError"

(***************************************************************************)
(* Properties of the registry and the handlers (checked under Spec)        *)
(***************************************************************************)

Called == lastCall.tool # "none"

HasKey(r, k) == k \in DOMAIN r

\* the error code of a result dict, "" when the key is absent
ErrorOf(r) == IF HasKey(r, "error") THEN r.error ELSE ""

C5_NoEscape ==
    (Called /\ lastCall.tool \in registry.tools) =>
        /\ ~lastCall.raised
        /\ HasKey(lastCall.result, "success")
        /\ ~(RequiredParams(lastCall.tool) \subseteq DOMAIN lastCall.kwargs) =>
              /\ lastCall.result.success = FALSE
              /\ ErrorOf(lastCall.result) = "EXECUTION_ERROR"

C5_Witness ==
    /\ Called
    /\ lastCall.tool = "create_task"
    /\ ~HasKey(lastCall.kwargs, "title")
    /\ ErrorOf(lastCall.result) = "EXECUTION_ERROR"

\* C6: validate() is true exactly when the registered names are the
\* required names, none missing and none extra.
C6_ValidateIffExact ==
    registry.built => (validate(registry.tools) <=> registry.tools = RequiredNames)

C6_Witness ==
    /\ registry.built
    /\ ~validate(registry.tools)
    /\ Cardinality(registry.tools) = Len(ALL_TOOL_NAMES)
    /\ appState = "failed"

\* C7: startup fails whenever a required name is not declared or a name is
\* declared twice, and the application serves only with a registry that
\* holds exactly the required names.
C7_StartupFailsFast ==
    /\ (appState # "starting"
          /\ (~(RequiredNames \subseteq Range(declared)) \/ HasDuplicate(declared)))
            => appState = "failed"
    /\ appState = "serving" =>
          (registry.built /\ registry.tools = RequiredNames /\ ~HasDuplicate(declared))

C7_Witness ==
    /\ appState = "failed"
    /\ HasDuplicate(declared)
    /\ RequiredNames \subseteq Range(declared)

\* C8: every ToolResult a handler returns and every dict execute returns
\* has an error code exactly when success is false.
C8_Envelope ==
    Called =>
        /\ (lastCall.result.success <=> ~HasKey(lastCall.result, "error"))
        /\ lastCall.raw # None =>
              (lastCall.raw[1].success <=> lastCall.raw[1].error = None)

C8_Witness ==
    /\ Called
    /\ lastCall.tool = "get_current_prayer"
    /\ lastCall.raw # None
    /\ ~lastCall.raw[1].success
    /\ ErrorOf(lastCall.result) = "DATABASE_ERROR"

OwnedBy(t, user) == {i \in DOMAIN t : t[i].user_id = user}

\* C9: a list_tasks call without filters returns exactly the stored tasks
\* of the calling user, with their titles; and the tool calls keep the
\* owner of every task: a new task belongs to the user whose create_task
\* call made it and carries the title passed, a task disappears only by a
\* delete_task call of its owner, and no call changes the owner of a task.
C9_OwnershipIsolation ==
    /\ (Called /\ lastCall.tool = "list_tasks" /\ lastCall.kwargs = EmptyKw
          /\ lastCall.result.success) =>
            LET rows == lastCall.result.data.tasks IN
            /\ {rows[k].id : k \in 1..Len(rows)} = OwnedBy(tasks, lastCall.user_id)
            /\ \A k \in 1..Len(rows) : rows[k].title = tasks[rows[k].id].title
            /\ \A j, k \in 1..Len(rows) : j # k => rows[j].id # rows[k].id
            /\ lastCall.result.data.total = Cardinality(OwnedBy(tasks, lastCall.user_id))
    /\ \A i \in DOMAIN tasks \cap DOMAIN prevTasks :
          tasks[i].user_id = prevTasks[i].user_id
    /\ \A i \in DOMAIN tasks \ DOMAIN prevTasks :
          /\ lastCall.tool = "create_task"
          /\ tasks[i].user_id = lastCall.user_id
          /\ tasks[i].title = lastCall.kwargs.title
    /\ \A i \in DOMAIN prevTasks \ DOMAIN tasks :
          /\ lastCall.tool = "delete_task"
          /\ prevTasks[i].user_id = lastCall.user_id

C9_Witness ==
    /\ Called
    /\ lastCall.tool = "list_tasks"
    /\ lastCall.kwargs = EmptyKw
    /\ lastCall.user_id = FirstUser
    /\ lastCall.result.success
    /\ Len(lastCall.result.data.tasks) = 1
    /\ lastCall.result.data.tasks[1].title = "Pray Fajr"
    /\ \E i \in DOMAIN tasks : tasks[i].user_id = FirstUser + 1

\* C10: update_task, delete_task and complete_task for a task_id that does
\* not exist or belongs to another user fail and leave every stored task
\* unchanged; the error is NOT_FOUND whenever the storage layer answered the
\* lookup.
C10_NotFound ==
    (Called /\ lastCall.tool \in {"update_task", "delete_task", "complete_task"}
       /\ HasKey(lastCall.kwargs, "task_id")
       /\ lastCall.kwargs.task_id \notin OwnedBy(prevTasks, lastCall.user_id)) =>
        /\ lastCall.result.success = FALSE
        /\ tasks = prevTasks
        /\ lastCall.fault # "pre" => ErrorOf(lastCall.result) = "NOT_FOUND"

C10_Witness ==
    /\ Called
    /\ lastCall.tool = "delete_task"
    /\ HasKey(lastCall.kwargs, "task_id")
    /\ lastCall.kwargs.task_id \in DOMAIN tasks
    /\ tasks[lastCall.kwargs.task_id].user_id # lastCall.user_id
    /\ ErrorOf(lastCall.result) = "NOT_FOUND"

\* C11: update_task on a task of the caller changes only the fields passed
\* with a value: every other field of that task keeps its previous value
\* (a field passed as None is left as it was, never nulled), the owner is
\* kept, and no other task changes, appears or disappears.
C11_PartialPatch ==
    (Called /\ lastCall.tool = "update_task") =>
        /\ DOMAIN tasks = DOMAIN prevTasks
        /\ \A i \in DOMAIN tasks :
              /\ tasks[i].user_id = prevTasks[i].user_id
              /\ \A f \in DOMAIN tasks[i] :
                    tasks[i][f] # prevTasks[i][f] =>
                        /\ HasKey(lastCall.kwargs, "task_id")
                        /\ i = lastCall.kwargs.task_id
                        /\ prevTasks[i].user_id = lastCall.user_id
                        /\ HasKey(lastCall.kwargs, f)
                        /\ lastCall.kwargs[f] # PyNone
                        /\ tasks[i][f] = lastCall.kwargs[f]

C11_Witness ==
    /\ Called
    /\ lastCall.tool = "update_task"
    /\ lastCall.result.success
    /\ HasKey(lastCall.kwargs, "priority")
    /\ DOMAIN tasks = 1..2
    /\ LET i == lastCall.kwargs.task_id IN
         /\ tasks[i].priority = "HIGH"
         /\ prevTasks[i].priority = "MEDIUM"
         /\ tasks[i].title = "Pray Fajr"
         /\ tasks[3 - i] = prevTasks[3 - i]

(***************************************************************************)
(* Properties of the intent classifier (checked under SpecIntent)          *)
(***************************************************************************)

IntentOrder ==
    <<"create_task", "update_task", "delete_task", "list_tasks", "search_masjids">>

PatternsOf(intent) ==
    CASE intent = "create_task" -> create_patterns
      [] intent = "update_task" -> update_patterns
      [] intent = "delete_task" -> delete_patterns
      [] intent = "list_tasks" -> list_patterns
      [] OTHER -> masjid_patterns

\* the positions in IntentOrder of the intents whose patterns match m
MatchingIntents(m) ==
    {k \in 1..Len(IntentOrder) : AnyMatch(PatternsOf(IntentOrder[k]), Lower(m))}

\* C12: detect_intent returns exactly one intent of the closed set: the
\* first in the order create > update > delete > list > search-masjid whose
\* pattern set matches the message, and conversation when none matches.
C12_IntentPriority ==
    intentOut # "none" =>
        LET M == MatchingIntents(intentMsg) IN
        /\ intentOut \in Range(IntentOrder) \cup {"conversation"}
        /\ M = {} => intentOut = "conversation"
        /\ M # {} => /\ intentOut \in Range(IntentOrder)
                     /\ \E k \in M : /\ intentOut = IntentOrder[k]
                                     /\ \A j \in M : k <= j

C12_Witness ==
    /\ intentOut = "delete_task"
    /\ AnyMatch(delete_patterns, Lower(intentMsg))
    /\ AnyMatch(list_patterns, Lower(intentMsg))

(***************************************************************************)
(* Properties of the dispatcher and the chat endpoint                      *)
(***************************************************************************)

\* a chat request has been handled to its end
Handled == lastChat.phase = "done"

\* run_agent was called and the classifier chose `intent`
Dispatched(intent) ==
    Handled /\ lastChat.dispatched /\ lastChat.intent = intent

DeterministicIntents ==
    {"create_task", "list_tasks", "update_task", "delete_task", "search_masjids"}

\* C13: whenever the classified intent is create_task, list_tasks,
\* update_task, delete_task or search_masjids, run_agent calls
\* ToolRegistry.execute for the tool of that name before it replies.
C13_ToolBeforeReply ==
    \A intent \in DeterministicIntents :
        Dispatched(intent) =>
            /\ lastChat.exec # None
            /\ lastChat.exec[1].tool = intent

\* the existing history lines of the prompt are the history messages, in
\* their order, and its last line is the new message
PromptCarries(prompt, history, message) ==
    /\ prompt[Len(prompt)].content = message
    /\ history # <<>> =>
          /\ Len(prompt) = Len(history) + 1
          /\ \A k \in 1..Len(history) : prompt[k].content = history[k].content

\* C14: with the intent conversation run_agent executes no tool and leaves
\* the stored tasks as they were, calls the language-model client exactly
\* once with the history and the new message, and its reply is the generated
\* text; the stored tasks change only in a request that executed a tool.
C14_ConversationFrame ==
    /\ Dispatched("conversation") =>
          /\ lastChat.exec = None
          /\ tasks = prevTasks
          /\ lastChat.llmCalls = 1
          /\ lastChat.prompt # None
          /\ PromptCarries(lastChat.prompt[1], lastChat.req.history[1],
                           lastChat.req.message)
          /\ lastChat.exc = "none" =>
                /\ lastChat.response[1].success
                /\ lastChat.response[1].message =
                      [template |-> "generated", text |-> LlmText]
    /\ (Handled /\ tasks # prevTasks) =>
          /\ lastChat.intent \in DeterministicIntents
          /\ lastChat.exec # None
          /\ lastChat.llmCalls = 0

C14_Witness ==
    /\ Dispatched("conversation")
    /\ lastChat.req.history = Some(ConfirmExchange)
    /\ Len(lastChat.prompt[1]) = 3
    /\ lastChat.response[1].success
    /\ tasks # <<>>

\* C15: a request whose message contains a keyword of the mutating-keyword
\* list and which has no user_id gets the failure envelope
\* authentication_required; run_agent is not called, no tool runs and the
\* stored tasks do not change.
C15_AuthRequired ==
    (Handled /\ requires_auth(lastChat.req.message) /\ lastChat.req.user_id = None) =>
        /\ lastChat.response # None
        /\ ~lastChat.response[1].success
        /\ lastChat.response[1].error = Some("authentication_required")
        /\ ~lastChat.dispatched
        /\ lastChat.exec = None
        /\ tasks = prevTasks

ResponseCodes ==
    {"authentication_required", "authentication_failed", "quota_exceeded",
     "network_error", "tool_execution_failed", "internal_error"}

\* C16: an exception caught by the handler is answered with success = false
\* and the code of its class: GeminiAuthError authentication_failed,
\* GeminiQuotaError quota_exceeded, GeminiNetworkError network_error, another
\* GeminiError internal_error, any other exception internal_error.
C16_ErrorMapping ==
    (Handled /\ ~lastChat.escaped /\ lastChat.exc # "none") =>
        /\ lastChat.response # None
        /\ ~lastChat.response[1].success
        /\ lastChat.response[1].error # None
        /\ lastChat.response[1].error[1] \in ResponseCodes
        /\ lastChat.exc = "GeminiAuthError" =>
              lastChat.response[1].error[1] = "authentication_failed"
        /\ lastChat.exc = "GeminiQuotaError" =>
              lastChat.response[1].error[1] = "quota_exceeded"
        /\ lastChat.exc = "GeminiNetworkError" =>
              lastChat.response[1].error[1] = "network_error"
        /\ lastChat.exc \notin {"GeminiAuthError", "GeminiQuotaError",
                                "GeminiNetworkError"} =>
              lastChat.response[1].error[1] = "internal_error"

C16_Witness ==
    /\ Dispatched("conversation")
    /\ lastChat.exc = "GeminiQuotaError"
    /\ lastChat.response[1].error = Some("quota_exceeded")

\* C17: every request is answered with an envelope that carries the
\* request's id, whatever run_agent and the client do; no exception leaves
\* the handler.
C17_AlwaysEnvelope ==
    Handled =>
        /\ ~lastChat.escaped
        /\ lastChat.response # None
        /\ lastChat.response[1].request_id = lastChat.req.request_id

\* C18: when the tool a request executed returns success = false, the
\* response is a failure envelope with error = "tool_execution_failed".
C18_ToolFailureCode ==
    (Handled /\ lastChat.exec # None /\ ~lastChat.exec[1].result.success) =>
        /\ lastChat.response # None
        /\ ~lastChat.response[1].success
        /\ lastChat.response[1].error = Some("tool_execution_failed")

\* the history ends with the assistant asking about the deletion and the
\* user agreeing
Confirmed(history) ==
    /\ history # None
    /\ Len(history[1]) >= 2
    /\ history[1][Len(history[1]) - 1].role = "assistant"
    /\ "delete" \in WithinMessage(history[1][Len(history[1]) - 1].content)
    /\ history[1][Len(history[1])].role = "user"
    /\ history[1][Len(history[1])].content = <<"yes">>

\* C19: run_agent is called with a message of delete intent only after a
\* confirmation turn of the user for that deletion.
C19_DeleteAfterConfirmation ==
    Dispatched("delete_task") => Confirmed(lastChat.req.history)

\* C20: the response does not depend on the text of the exception or
\* storage error: the same request under the same outcomes, with another
\* detail text, is answered with the same body.
C20_NoDetailInBody ==
    Handled => lastChat.responses = {lastChat.response}

C20_Witness ==
    /\ Dispatched("create_task")
    /\ lastChat.exec[1].fault # "none"
    /\ ~lastChat.exec[1].result.success
    /\ lastChat.response[1].success
    /\ lastChat.response[1].message.template = "Failed to create task"

\* the tool a request executed returned success = false
ToolFailed ==
    Handled /\ lastChat.exec # None /\ ~lastChat.exec[1].result.success

\* C21: when the tool run_agent executed returns a failure result, the reply
\* is the failure template of the intent with the error_message of that
\* result.
C21_ReplyShowsErrorMessage ==
    ToolFailed =>
        /\ lastChat.response # None
        /\ HasKey(lastChat.response[1].message, "error")
        /\ HasKey(lastChat.exec[1].result, "error_message")
        /\ lastChat.response[1].message.error =
              lastChat.exec[1].result.error_message

\* the tool a request executed was `tool` and returned success = true
ToolSucceeded(tool) ==
    /\ Handled
    /\ lastChat.exec # None
    /\ lastChat.exec[1].tool = tool
    /\ lastChat.exec[1].result.success

\* C28: the success reply of list_tasks lists the tasks of the handler's
\* result, as many as the result holds, and the success reply of
\* create_task shows the title and the priority of the created task.
C28_ReplyFromResult ==
    /\ ToolSucceeded("list_tasks") =>
          /\ lastChat.response # None
          /\ lastChat.exec[1].result.data.tasks # <<>> =>
                /\ HasKey(lastChat.response[1].message, "items")
                /\ lastChat.response[1].message.items =
                      lastChat.exec[1].result.data.tasks
    /\ ToolSucceeded("create_task") =>
          /\ lastChat.response # None
          /\ lastChat.response[1].message.title =
                Some(lastChat.exec[1].result.data.title)
          /\ lastChat.response[1].message.priority =
                Some(lastChat.exec[1].result.data.priority)

TaskIntents == {"create_task", "update_task", "delete_task", "list_tasks"}

\* a handled request without user_id whose message is classified as a task
\* operation
AnonymousTaskRequest ==
    /\ Handled
    /\ lastChat.req.user_id = None
    /\ detect_intent(lastChat.req.message) \in TaskIntents

\* C29: a request without user_id whose message is classified create_task,
\* update_task, delete_task or list_tasks has a keyword of the
\* authentication list in its message and is answered with
\* authentication_required before the dispatcher runs: no tool is executed
\* and no task is stored for it.
C29_NoToolWithoutUser ==
    AnonymousTaskRequest =>
        /\ requires_auth(lastChat.req.message)
        /\ lastChat.response # None
        /\ lastChat.response[1].error = Some("authentication_required")
        /\ ~lastChat.dispatched
        /\ lastChat.exec = None
        /\ tasks = prevTasks

(***************************************************************************)
(* Properties of the tool layer, continued                                 *)
(***************************************************************************)

\* C22: the dictionary of a ToolResult a handler returned, parsed back into
\* a ToolResult, has the success, error and data of the original, also when
\* the data holds fields that are None.
C22_RoundTrip ==
    (Called /\ lastCall.raw # None) =>
        LET r == lastCall.raw[1]
            back == ToolResult(to_dict(r))
        IN  /\ back.success = r.success
            /\ back.error = r.error
            /\ back.data = r.data

C22_Witness ==
    /\ Called
    /\ lastCall.tool = "list_tasks"
    /\ lastCall.raw # None
    /\ lastCall.raw[1].success
    /\ lastCall.raw[1].data[1].tasks # <<>>
    /\ lastCall.raw[1].data[1].tasks[1].linked_prayer = None
    /\ ~HasKey(to_dict(lastCall.raw[1]), "error")
    /\ to_dict(lastCall.raw[1]).data.tasks[1].linked_prayer = None

(***************************************************************************)
(* Properties of the health check                                          *)
(***************************************************************************)

HealthDone == health.pc = "done"

\* C23: the health check makes one generation call and does not raise; its
\* record is healthy exactly when that call returned, and otherwise
\* unhealthy with the error kind of the failure the call raised.
C23_HealthMatchesOutcome ==
    /\ HealthDone =>
          /\ ~health.raised
          /\ health.record.status \in {"healthy", "unhealthy"}
          /\ health.record.status = "healthy" <=>
                (health.calls = 1 /\ genResult.kind = "text")
    /\ (HealthDone /\ health.client # "None") =>
          /\ health.calls = 1
          /\ genPc \in {"returned", "raised"}
          /\ genResult.kind = "text" => ~HasKey(health.record, "error")
          /\ genResult.kind # "text" =>
                /\ HasKey(health.record, "error")
                /\ genResult.kind = "GeminiAuthError" =>
                      health.record.error = "authentication_failed"
                /\ genResult.kind = "GeminiQuotaError" =>
                      health.record.error = "quota_exceeded"
                /\ genResult.kind = "GeminiNetworkError" =>
                      health.record.error = "network_error"
                /\ genResult.kind = "GeminiError" =>
                      health.record.error = "gemini_error"
                /\ genResult.kind \notin GeminiErrors =>
                      health.record.error = "unknown_error"

C23_Witness ==
    /\ HealthDone
    /\ health.calls = 1
    /\ Len(outcomes) = 2
    /\ genResult.kind = "GeminiError"
    /\ health.record.status = "unhealthy"
    /\ health.record.error = "gemini_error"

(***************************************************************************)
(* Properties of overlapping chat requests                                 *)
(***************************************************************************)

AllAnswered == conc.phase = "running" /\ \A i \in Slots : conc.pc[i] = "done"

\* the orders in which the requests of conc can be handled one by one
Orders == {o \in [Slots -> Slots] : \A i, j \in Slots : o[i] = o[j] => i = j}

RECURSIVE SerialRun(_, _, _, _, _, _)
\* the requests o[k], o[k+1], ... handled one after the other by chat, from
\* the client, table and responses given
SerialRun(o, k, client, t, n, resp) ==
    IF k > NumSlots THEN [resp |-> resp, tasks |-> t]
    ELSE Only({SerialRun(o, k + 1, h.client, h.tasks, h.nextId,
                         [resp EXCEPT ![o[k]] = h.response]) :
               h \in {chat(conc.reqs[o[k]], conc.envs[o[k]], client,
                           registry.tools, t, n)}})

\* the requests of conc handled one after the other in the order o, from
\* the state they arrived in: their responses and the task table afterwards
Serial(o) ==
    SerialRun(o, 1, conc.start.client, conc.start.tasks, conc.start.nextId,
              [i \in Slots |-> None])

\* C24: overlapping chat requests share only the registry, which no request
\* changes, and the data store: in every interleaving the responses (and the
\* task table left behind) are those of the same requests handled one after
\* the other in some order.
C24_Serializable ==
    conc.phase = "running" =>
        /\ registry.built
        /\ registry.tools = RequiredNames
        /\ AllAnswered =>
              \E o \in Orders : \E s \in {Serial(o)} :
                  /\ conc.resp = s.resp
                  /\ tasks = s.tasks

C24_Witness ==
    /\ AllAnswered
    /\ conc.inits = 2
    /\ Cardinality(DOMAIN tasks) = 2
    /\ conc.resp[1] # None
    /\ conc.resp[2] # None

(***************************************************************************)
(* Properties of the generation client, continued                          *)
(***************************************************************************)

C26_RegistryFrozen ==
    registry.built =>
        /\ registry.tools = Range(declared)
        /\ ~HasDuplicate(declared)
        /\ get_tool_registry(registry, declared) = registry
        /\ (HasKey(lastCall, "before") /\ lastCall.before.built) =>
              lastCall.before = registry

C26_Witness ==
    /\ registry.built
    /\ appState = "serving"
    /\ HasKey(lastCall, "method")
    /\ lastCall.method = "get"
    /\ lastCall.before = registry
    /\ tasks # <<>>

(***************************************************************************)
(* Properties of run_agent called on its own                               *)
(***************************************************************************)

AgentCalled == lastChat.phase = "agent"

\* C27: with the intent conversation and no client, run_agent raises
\* ValueError before it builds a prompt or calls the generation service,
\* and executes no tool.
C27_FailsFastWithoutClient ==
    (AgentCalled /\ lastChat.intent = "conversation" /\ lastChat.client = "None") =>
        /\ lastChat.raised = "ValueError"
        /\ lastChat.prompt = None
        /\ lastChat.llmCalls = 0
        /\ lastChat.exec = None
        /\ tasks = prevTasks

C27_Witness ==
    /\ AgentCalled
    /\ lastChat.intent = "conversation"
    /\ lastChat.client = "None"
    /\ lastChat.env.llm = "text"
    /\ lastChat.history = Some(ConfirmExchange)
    /\ lastChat.raised = "ValueError"

\* C30: a run_agent call whose intent is create_task, list_tasks,
\* update_task, delete_task or search_masjids makes no call to the
\* generation client and returns its reply whatever the generation service
\* would do; a call that raises a typed generation failure has the intent
\* conversation.
C30_NoModelCallForTools ==
    AgentCalled =>
        /\ lastChat.intent \in DeterministicIntents =>
              /\ lastChat.llmCalls = 0
              /\ lastChat.prompt = None
              /\ lastChat.raised = "none"
        /\ lastChat.raised \in GeminiErrors => lastChat.intent = "conversation"

C30_Witness ==
    /\ AgentCalled
    /\ lastChat.intent = "search_masjids"
    /\ lastChat.env.llm = "GeminiQuotaError"
    /\ lastChat.client = "ready"
    /\ lastChat.llmCalls = 0
    /\ lastChat.raised = "none"
    /\ lastChat.exec # None
    /\ lastChat.exec[1].result.success

====
